---- MODULE Spec2Model ----
(***************************************************************************)
(* Year 2015 day 4, "The Ideal Stocking Stuffer": the two-tier parallel    *)
(* brute-force search of src/src/year2015/day04.rs.                        *)
(*                                                                         *)
(* parse builds the Shared state, checks the candidates below the block    *)
(* size one after the other (the prologue), then spawns the workers and    *)
(* joins them.  A worker repeats: load done, fetch_add the counter, hash   *)
(* the whole block it obtained.  Every atomic operation of the code is one *)
(* step of the model; the steps of different threads interleave freely.    *)
(* The atomics are all Ordering::Relaxed: each has one modification order, *)
(* fetch_add and fetch_min act on its latest value, and a load of done is  *)
(* taken to read the latest value as well.                                 *)
(*                                                                         *)
(* Scale.  The code works in blocks of 1000 candidates (three decimal      *)
(* digits) with a 32-bit counter.  The model keeps the structure and       *)
(* shrinks the numbers: a block holds BlockSize candidates and is one      *)
(* digit of radix BlockSize, and the counter's type holds the values       *)
(* 0 .. U32Max with U32Max + 1 = CounterBlocks * BlockSize + CounterRem    *)
(* (2^32 = 4294967 * 1000 + 296 in the code).  Because a block is a single *)
(* digit here, every formatted offset has at least as many digits as the   *)
(* worker rewrites; the code's `string.len() - 3` falling below the length *)
(* of the prefix, which needs an offset under 100, is not modelled.        *)
(*                                                                         *)
(* MD5 is not modelled bit by bit.  The hash is an unknown but fixed       *)
(* function of the bytes hashed: secret maps every buffer to the class of  *)
(* the first word of its digest.                                           *)
(***************************************************************************)
EXTENDS Integers, Sequences, FiniteSets, TLC

\* Bounds of the model.
BlockSize == 3
CounterBlocks == 3
CounterRem == 2
MaxWorkers == 2
MaxHits == 2
MaxRuns == 2

\* The number of values of the counter's type (2^32 in the code).
CounterMod == CounterBlocks * BlockSize + CounterRem
\* u32::MAX, the "unknown" sentinel of first and second.
U32Max == CounterMod - 1

Workers == 1..MaxWorkers

Min(a, b) == IF a <= b THEN a ELSE b

\* format!("{}{}", prefix, n): the digits of n after the prefix, most
\* significant first, without leading zeros.  The prefix is the same in every
\* buffer and is left out.
RECURSIVE Format(_)
Format(n) ==
    IF n < BlockSize THEN <<n>>
    ELSE Append(Format(n \div BlockSize), n % BlockSize)

\* The worker's buffer for the n-th candidate of the block at offset: the
\* formatted offset with its low-order digits overwritten by those of n.
FastBuffer(off, n) ==
    LET string == Format(off)
        size == Len(string) - 1
    IN  [string EXCEPT ![size + 1] = n]

\* Every buffer the program can hash: the numerals up to the last one a block
\* starting below CounterMod can hold.
Buffers == {Format(v) : v \in 0..(CounterMod + BlockSize - 2)}

\* Classes of the first digest word: 2 when its top six nibbles are zero,
\* 1 when exactly its top five are, 0 otherwise.
Results == 0..2

\* The hash functions with at most k buffers of a class other than 0.
RECURSIVE Secrets(_)
Secrets(k) ==
    IF k = 0 THEN {[b \in Buffers |-> 0]}
    ELSE LET S == Secrets(k - 1)
         IN  S \cup {[s EXCEPT ![b] = c] :
                        s \in S, b \in Buffers, c \in Results \ {0}}

VARIABLES
    secret,          \* the hash: buffer -> class of its digest (hash, line 67)
    nworkers,        \* thread::available_parallelism() (line 50)
    overflowChecks,  \* TRUE: built with overflow checks (debug), FALSE: release
    done, counter, first, second,   \* the atomics of Shared (lines 27-30)
    mainpc,          \* where parse is (lines 33-56)
    pn,              \* the prologue's loop variable (line 43)
    spawned,         \* workers spawned so far (line 50)
    wpc,             \* where each worker is (lines 77-92)
    offset,          \* each worker's current block offset (line 79)
    wn,              \* each worker's loop variable n (line 84)
    claimed,         \* history: the offsets fetch_add has returned, with how
                     \* often (1 or 2, 2 standing for "more than once")
    run,             \* which call of parse on this input this is
    prev,            \* history: what the previous call returned
    hashed,          \* history: how often the workers passed each candidate
                     \* number to check_hash (0, 1 or 2 for "more than once")
    lateClaims,      \* history: each worker's fetch_adds since done was set
    lateHashes,      \* history: each worker's check_hash calls since then
    restAtStop       \* history: what each worker had left of its block when
                     \* done was set

hist == <<hashed, lateClaims, lateHashes, restAtStop>>

vars == <<secret, nworkers, overflowChecks, done, counter, first, second,
          mainpc, pn, spawned, wpc, offset, wn, claimed, run, prev, hist>>

\* Where the history counter lateHashes stops counting.
HashCap == 2 * BlockSize + 1

\* let (result, ..) = hash(buffer)
Hash(buffer) == secret[buffer]

\* result & 0xffffff00 == 0
Tier2(result) == result = 2
\* result & 0xfffff000 == 0: true of every result Tier2 is true of
Tier1(result) == result >= 1

\* A fetch_min that stores its argument whatever the current value is.
FetchMinAsStore(cur, n) == n

\* AtomicU32::fetch_min: the value stored afterwards.
FetchMin(cur, n) == Min(cur, n)

\* AtomicU32::fetch_add: the value stored afterwards; atomic adds wrap.
FetchAdd(cur, k) == (cur + k) % CounterMod

\* check_hash up to and including its first atomic operation.
SecondAfter(result, n) ==
    IF Tier2(result) THEN FetchMin(second, n) ELSE second

FirstAfter(result, n) ==
    IF Tier2(result) THEN first
    ELSE IF Tier1(result) THEN FetchMin(first, n)
    ELSE first

Init ==
    /\ secret \in Secrets(MaxHits)
    /\ nworkers \in 1..MaxWorkers
    /\ overflowChecks \in BOOLEAN
    /\ done = FALSE
    /\ counter = BlockSize
    /\ first = U32Max
    /\ second = U32Max
    /\ mainpc = "prologue"
    /\ pn = 1
    /\ spawned = 0
    /\ wpc = [w \in Workers |-> "unspawned"]
    /\ offset = [w \in Workers |-> 0]
    /\ wn = [w \in Workers |-> 0]
    /\ claimed = [o \in {} |-> 0]
    /\ run = 1
    /\ prev = <<>>
    /\ hashed = [c \in 0..U32Max |-> 0]
    /\ lateClaims = [w \in Workers |-> 0]
    /\ lateHashes = [w \in Workers |-> 0]
    /\ restAtStop = [w \in Workers |-> 0]

\* A prologue loop that stops after its first candidate.
PrologueDoneEarly(n) == n >= 2

\* for n in 1..1000: the loop is over when n reaches the block size.
PrologueDone(n) == n = BlockSize

\* One iteration of parse's loop over 1..BlockSize-1: format, check_hash.
\* No other thread exists yet, so the whole call is one step.
Prologue ==
    /\ mainpc = "prologue"
    /\ LET result == Hash(Format(pn))
       IN  /\ second' = SecondAfter(result, pn)
           /\ first' = FirstAfter(result, pn)
           /\ done' = (done \/ Tier2(result))
    /\ pn' = pn + 1
    /\ mainpc' = IF PrologueDone(pn + 1) THEN "spawn" ELSE "prologue"
    /\ UNCHANGED <<secret, nworkers, overflowChecks, counter, spawned, wpc,
                   offset, wn, claimed, run, prev,
                   hist>>

\* scope.spawn(|| worker(&shared)), once per iteration of the spawn loop.
Spawn ==
    /\ mainpc = "spawn"
    /\ spawned' = spawned + 1
    /\ wpc' = [wpc EXCEPT ![spawned + 1] = "load"]
    /\ mainpc' = IF spawned + 1 = nworkers THEN "join" ELSE "spawn"
    /\ UNCHANGED <<secret, nworkers, overflowChecks, done, counter, first,
                   second, pn, offset, wn, claimed, run, prev,
                   hist>>

Stopped(w) == wpc[w] \in {"exit", "panic", "unspawned"}

\* A scope that ends as soon as one of the threads has stopped.
AnyJoined == \E w \in Workers : wpc[w] \in {"exit", "panic"}

\* thread::scope joins every thread spawned in it before it ends.
AllJoined == \A w \in Workers : Stopped(w)

\* The end of thread::scope: every spawned thread is joined; the scope
\* panics when one of them panicked, otherwise parse returns shared.
Join ==
    /\ mainpc = "join"
    /\ AllJoined
    /\ mainpc' = IF \E w \in Workers : wpc[w] = "panic"
                 THEN "panicked" ELSE "returned"
    /\ UNCHANGED <<secret, nworkers, overflowChecks, done, counter, first,
                   second, pn, spawned, wpc, offset, wn, claimed, run, prev,
                   hist>>

\* while !shared.done.load(Relaxed)
Load(w) ==
    /\ wpc[w] = "load"
    /\ wpc' = [wpc EXCEPT ![w] = IF done THEN "exit" ELSE "claim"]
    /\ UNCHANGED <<secret, nworkers, overflowChecks, done, counter, first,
                   second, mainpc, pn, spawned, offset, wn, claimed, run, prev,
                   hist>>

\* let offset = shared.counter.fetch_add(1000, Relaxed), and the buffer set up
Claim(w) ==
    /\ wpc[w] = "claim"
    /\ offset' = [offset EXCEPT ![w] = counter]
    /\ counter' = FetchAdd(counter, BlockSize)
    /\ claimed' = [o \in DOMAIN claimed \cup {counter} |->
                      IF o = counter
                      THEN (IF o \in DOMAIN claimed THEN 2 ELSE 1)
                      ELSE claimed[o]]
    /\ wn' = [wn EXCEPT ![w] = 0]
    /\ wpc' = [wpc EXCEPT ![w] = "hash"]
    /\ lateClaims' = IF done
                     THEN [lateClaims EXCEPT ![w] = Min(@ + 1, 2)]
                     ELSE lateClaims
    /\ UNCHANGED <<secret, nworkers, overflowChecks, done, first, second,
                   mainpc, pn, spawned, run, prev, hashed, lateHashes,
                   restAtStop>>

\* offset + n overflows u32
Overflows(w) == offset[w] + wn[w] > U32Max

\* The candidate number handed to check_hash: offset + n, wrapped when the
\* build does not check overflow.
Candidate(w) == (offset[w] + wn[w]) % CounterMod

\* A block loop that goes on to the next fetch_add without testing done.
AdvanceNoStopTest(w) ==
    IF wn[w] + 1 = BlockSize
    THEN /\ wn' = wn
         /\ wpc' = [wpc EXCEPT ![w] = "claim"]
    ELSE /\ wn' = [wn EXCEPT ![w] = wn[w] + 1]
         /\ wpc' = [wpc EXCEPT ![w] = "hash"]

\* The end of one iteration of `for n in 0..1000`.
Advance(w) ==
    IF wn[w] + 1 = BlockSize
    THEN /\ wn' = wn
         /\ wpc' = [wpc EXCEPT ![w] = "load"]
    ELSE /\ wn' = [wn EXCEPT ![w] = wn[w] + 1]
         /\ wpc' = [wpc EXCEPT ![w] = "hash"]

\* One iteration of the block loop up to check_hash's first atomic operation:
\* the buffer's digits are rewritten, offset + n is evaluated (a panic in a
\* build with overflow checks), the buffer is hashed and classified.
Check(w) ==
    /\ wpc[w] = "hash"
    /\ IF Overflows(w) /\ overflowChecks
       THEN /\ wpc' = [wpc EXCEPT ![w] = "panic"]
            /\ UNCHANGED <<first, second, wn, hashed, lateHashes>>
       ELSE LET result == Hash(FastBuffer(offset[w], wn[w]))
            IN  /\ second' = SecondAfter(result, Candidate(w))
                /\ first' = FirstAfter(result, Candidate(w))
                /\ hashed' = [hashed EXCEPT ![Candidate(w)] = Min(@ + 1, 2)]
                /\ lateHashes' =
                      IF done
                      THEN [lateHashes EXCEPT ![w] = Min(@ + 1, HashCap)]
                      ELSE lateHashes
                /\ IF Tier2(result)
                   THEN /\ wpc' = [wpc EXCEPT ![w] = "store"]
                        /\ wn' = wn
                   ELSE Advance(w)
    /\ UNCHANGED <<secret, nworkers, overflowChecks, done, counter, mainpc,
                   pn, spawned, offset, claimed, run, prev, lateClaims,
                   restAtStop>>

\* The candidates of its current block worker v has yet to pass to check_hash.
RestOfBlock(v) ==
    IF wpc[v] = "hash" THEN BlockSize - wn[v]
    ELSE IF wpc[v] = "store" THEN BlockSize - wn[v] - 1
    ELSE 0

\* shared.done.store(true, Relaxed), the second atomic operation of check_hash
Store(w) ==
    /\ wpc[w] = "store"
    /\ done' = TRUE
    /\ Advance(w)
    /\ restAtStop' = IF done THEN restAtStop
                     ELSE [v \in Workers |-> RestOfBlock(v)]
    /\ UNCHANGED <<secret, nworkers, overflowChecks, counter, first, second,
                   mainpc, pn, spawned, offset, claimed, run, prev, hashed,
                   lateClaims, lateHashes>>

Worker(w) == Load(w) \/ Claim(w) \/ Check(w) \/ Store(w)

Next ==
    \/ Prologue
    \/ Spawn
    \/ Join
    \/ \E w \in Workers : Load(w)
    \/ \E w \in Workers : Claim(w)
    \/ \E w \in Workers : Check(w)
    \/ \E w \in Workers : Store(w)

Spec == Init /\ [][Next]_vars

\* The scheduler runs every thread that can take a step: parse's own thread
\* and every spawned worker.
Fairness ==
    /\ WF_vars(Prologue \/ Spawn \/ Join)
    /\ \A w \in Workers : WF_vars(Worker(w))

SpecFair == Spec /\ Fairness

\* The caller calls parse again on the same input once it has returned: a new
\* Shared is built, on a machine that may offer another number of cores.
Rerun ==
    /\ mainpc = "returned"
    /\ run < MaxRuns
    /\ run' = run + 1
    /\ prev' = <<first, second>>
    /\ nworkers' \in 1..MaxWorkers
    /\ done' = FALSE
    /\ counter' = BlockSize
    /\ first' = U32Max
    /\ second' = U32Max
    /\ mainpc' = "prologue"
    /\ pn' = 1
    /\ spawned' = 0
    /\ wpc' = [w \in Workers |-> "unspawned"]
    /\ offset' = [w \in Workers |-> 0]
    /\ wn' = [w \in Workers |-> 0]
    /\ claimed' = [o \in {} |-> 0]
    /\ hashed' = [c \in 0..U32Max |-> 0]
    /\ lateClaims' = [w \in Workers |-> 0]
    /\ lateHashes' = [w \in Workers |-> 0]
    /\ restAtStop' = [w \in Workers |-> 0]
    /\ UNCHANGED <<secret, overflowChecks>>

NextRepeat == Next \/ Rerun

SpecRepeat == Init /\ [][NextRepeat]_vars

\* part1 and part2: loads of first and second.
part1 == first
part2 == second

-----------------------------------------------------------------------------
(* What the answers are measured against. *)

\* The candidate numbers: the positive values of a u32.
Candidates == 1..U32Max

\* Candidate n meets a threshold when the hash of prefix || decimal(n) does.
MeetsTier2(n) == Tier2(Hash(Format(n)))
MeetsTier1(n) == Tier1(Hash(Format(n)))

SetMin(S) == CHOOSE m \in S : \A k \in S : m <= k

\* The counter has been asked for a block that reaches past u32::MAX: from
\* then on offsets and candidate numbers come from wrapped arithmetic.
PastRange == \E o \in DOMAIN claimed : o + BlockSize > U32Max

\* The ranges [o, o + BlockSize) of the offsets claimed so far.
ClaimedRange(o) == o..(o + BlockSize - 1)

-----------------------------------------------------------------------------
(* C1 *)

\* C1: when parse returns, part2 is a candidate that meets the tier-2
\* threshold and no candidate below part2 meets it.
C1_Tier2Minimal ==
    mainpc = "returned" =>
        /\ part2 \in Candidates
        /\ MeetsTier2(part2)
        /\ \A m \in 1..(part2 - 1) : ~MeetsTier2(m)

\* The same, for the runs in which no claimed block reaches past u32::MAX.
Tier2MinimalInRange ==
    (mainpc = "returned" /\ ~PastRange) =>
        /\ part2 \in Candidates
        /\ MeetsTier2(part2)
        /\ \A m \in 1..(part2 - 1) : ~MeetsTier2(m)

-----------------------------------------------------------------------------
(* C2 *)

\* The tier-1 value of a sequential scan over 1..upto that records a
\* candidate whenever it meets the tier-1 threshold.
ScanTier1(upto) ==
    LET S == {m \in 1..upto : MeetsTier1(m)}
    IN  IF S = {} THEN U32Max ELSE SetMin(S)

\* C2: when parse returns, part1 is a candidate that meets the tier-1
\* threshold, no candidate below part1 meets it, and part1 is the tier-1
\* value of the sequential scan over 1..part2.
C2_Tier1Minimal ==
    mainpc = "returned" =>
        /\ part1 \in Candidates
        /\ MeetsTier1(part1)
        /\ \A m \in 1..(part1 - 1) : ~MeetsTier1(m)
        /\ part1 = ScanTier1(part2)

-----------------------------------------------------------------------------
(* C3 *)

\* C3: when parse returns, part1 <= part2.
C3_Part1AtMostPart2 == mainpc = "returned" => part1 <= part2

-----------------------------------------------------------------------------
(* C5 *)

\* C5: over a whole run the offsets fetch_add returned are pairwise distinct,
\* their ranges are pairwise disjoint, and the union of the ranges is
\* BlockSize .. counter - 1.
C5_ClaimsPartition ==
    mainpc \in {"returned", "panicked"} =>
        /\ \A o \in DOMAIN claimed : claimed[o] = 1
        /\ \A o1, o2 \in DOMAIN claimed :
              o1 # o2 => ClaimedRange(o1) \cap ClaimedRange(o2) = {}
        /\ UNION {ClaimedRange(o) : o \in DOMAIN claimed}
              = BlockSize..(counter - 1)

\* The same in every state of the runs in which no claimed block reaches past
\* u32::MAX.
ClaimsPartitionInRange ==
    ~PastRange =>
        /\ \A o \in DOMAIN claimed : claimed[o] = 1
        /\ \A o1, o2 \in DOMAIN claimed :
              o1 # o2 => ClaimedRange(o1) \cap ClaimedRange(o2) = {}
        /\ UNION {ClaimedRange(o) : o \in DOMAIN claimed}
              = BlockSize..(counter - 1)

-----------------------------------------------------------------------------
(* C6 *)

\* The prologue's candidates that meet the tier-2 threshold.
PrologueHits == {m \in 1..(BlockSize - 1) : MeetsTier2(m)}

\* C6: when a prologue candidate meets the tier-2 threshold, second holds the
\* smallest such candidate from the end of the prologue on, whatever the
\* workers do, and part2 returns it.
C6_PrologueAnswerKept ==
    (PrologueHits # {} /\ mainpc # "prologue") =>
        /\ second = SetMin(PrologueHits)
        /\ mainpc = "returned" => part2 = SetMin(PrologueHits)
        /\ mainpc # "panicked"

\* Two prologue candidates meet the tier-2 threshold, the workers have run
\* and parse has returned.
C6_Witness ==
    /\ Cardinality(PrologueHits) >= 2
    /\ nworkers = MaxWorkers
    /\ mainpc = "returned"
    /\ part2 = SetMin(PrologueHits)

-----------------------------------------------------------------------------
(* C4 *)

\* C4: a call of parse returns the pair the previous call on the same secret
\* returned, whatever the number of workers and the interleaving of each.
C4_Deterministic ==
    (run > 1 /\ mainpc = "returned") => <<part1, part2>> = prev

-----------------------------------------------------------------------------
(* C7 *)

\* Some candidate of the counter's range meets the tier-2 threshold.
HasTier2InRange == \E n \in Candidates : MeetsTier2(n)

\* Prologue 0, Searching 1, Stopping 2, Done 3.
Phase ==
    IF mainpc = "prologue" THEN 0
    ELSE IF mainpc = "join" /\ AllJoined THEN 3
    ELSE IF mainpc \in {"returned", "panicked"} THEN 3
    ELSE IF done THEN 2
    ELSE 1

\* C7: when a candidate of the counter's range meets the tier-2 threshold,
\* done is eventually set, every worker leaves its loop and parse returns;
\* the phase never moves backwards.
C7_Terminates ==
    /\ HasTier2InRange =>
          <>(done /\ mainpc = "returned"
                  /\ \A w \in Workers : wpc[w] \in {"exit", "unspawned"})
    /\ [][Phase' >= Phase]_vars

-----------------------------------------------------------------------------
(* C8 *)

\* The step in which worker w leaves the iteration it is in.
LeavesIteration(w) ==
    /\ wpc[w] = "hash"
    /\ wpc'[w] # "hash" \/ wn'[w] # wn[w]

\* C8: within one call of parse the counter never moves to a smaller value,
\* no worker hashes a candidate whose number offset + n wrapped, and when no
\* candidate of the counter's range meets the tier-2 threshold the search
\* ends in a panic.
C8_NoSilentWrap ==
    /\ [][run' = run => counter' >= counter]_vars
    /\ [][\A w \in Workers :
            (LeavesIteration(w) /\ Overflows(w)) => wpc'[w] = "panic"]_vars
    /\ ~HasTier2InRange => <>(mainpc = "panicked")

-----------------------------------------------------------------------------
(* C9 *)

\* C9: parse returns only when every worker has stopped, and first, second,
\* counter and done do not change once it has returned.
C9_Synchronous ==
    [][/\ mainpc' = "returned" => \A w \in Workers : Stopped(w)'
       /\ mainpc = "returned" => UNCHANGED <<first, second, counter, done>>
      ]_vars

\* parse has returned after every core's worker claimed and hashed a block and
\* a tier-2 candidate was recorded.
C9_Witness ==
    /\ mainpc = "returned"
    /\ nworkers = MaxWorkers
    /\ \A w \in Workers : wpc[w] = "exit" /\ offset[w] \in DOMAIN claimed
    /\ second < U32Max

-----------------------------------------------------------------------------
(* C10 *)

\* What C10 says holds when check_hash(buffer, n) returns, result being the
\* hash of buffer.
Classified(result, n) ==
    /\ Tier1(result) => first' <= n
    /\ Tier2(result) => (second' <= n /\ done')

\* C10: after every call of check_hash, in the prologue or in a worker, a
\* candidate that meets the tier-1 threshold is at or above first, and one
\* that meets the tier-2 threshold is also at or above second, with done set.
C10_Classification ==
    [][/\ Prologue => Classified(Hash(Format(pn)), pn)
       /\ \A w \in Workers :
            /\ (Check(w) /\ wpc'[w] \notin {"panic", "store"}) =>
                  Classified(Hash(FastBuffer(offset[w], wn[w])), Candidate(w))
            /\ Store(w) =>
                  Classified(Hash(FastBuffer(offset[w], wn[w])), Candidate(w))
      ]_vars

-----------------------------------------------------------------------------
(* C11 *)

\* C11: in every state, when second is known (not u32::MAX) first is known.
C11_Tier1KnownFirst == second # U32Max => first # U32Max

-----------------------------------------------------------------------------
(* C12 *)

RECURSIVE Sum(_, _)
Sum(f, S) ==
    IF S = {} THEN 0
    ELSE LET x == CHOOSE y \in S : TRUE
         IN  f[x] + Sum(f, S \ {x})

\* The smallest candidate that meets the tier-2 threshold.
TrueMin == SetMin({n \in Candidates : MeetsTier2(n)})

\* How many check_hash calls of the workers had a candidate number above the
\* true tier-2 minimum (a third and later call on one number is not counted).
Overshoot == Sum(hashed, {c \in Candidates : c > TrueMin})

\* C12: the workers hash at most nworkers * BlockSize candidates greater than
\* the true tier-2 minimum.
C12_OvershootBound ==
    HasTier2InRange => Overshoot <= nworkers * BlockSize

\* C12 as amended: the workers hash at most nworkers * BlockSize candidates
\* after done has been set.
C12_LateHashesBound ==
    Sum(lateHashes, 1..nworkers) <= nworkers * BlockSize

\* Both workers went on hashing after done was set, one of them a whole
\* block it claimed afterwards, and parse has returned.
C12_Witness ==
    /\ mainpc = "returned"
    /\ nworkers = MaxWorkers
    /\ \A w \in 1..nworkers : lateHashes[w] >= 1
    /\ \E w \in 1..nworkers : lateHashes[w] = BlockSize

-----------------------------------------------------------------------------
(* C13 *)

\* How often candidate c was passed to check_hash: once by the prologue when
\* its loop is past c, and by the workers as recorded.
Passed(c) == (IF c < pn THEN 1 ELSE 0) + hashed[c]

\* C13: when parse has ended, every integer in 1 .. counter - 1 was passed to
\* check_hash exactly once, and every candidate up to part2 was passed.
C13_ExhaustiveCoverage ==
    mainpc \in {"returned", "panicked"} =>
        /\ \A c \in 1..(counter - 1) : Passed(c) = 1
        /\ mainpc = "returned" => \A c \in 1..part2 : Passed(c) >= 1

\* The same for the runs in which no claimed block reaches past u32::MAX.
CoverageInRange ==
    (mainpc \in {"returned", "panicked"} /\ ~PastRange) =>
        /\ \A c \in 1..(counter - 1) : Passed(c) = 1
        /\ mainpc = "returned" => \A c \in 1..part2 : Passed(c) >= 1

-----------------------------------------------------------------------------
(* C14 *)

\* C14: once done is set, a worker performs at most one more fetch_add,
\* passes at most the rest of its current block plus that one block to
\* check_hash, and its next test of done ends its loop.
C14_StopLatency ==
    [][\A w \in Workers :
          /\ lateClaims'[w] <= 1
          /\ lateHashes'[w] <= restAtStop'[w] + BlockSize * lateClaims'[w]
          /\ (done /\ wpc[w] = "load" /\ wpc'[w] # "load")
                => wpc'[w] = "exit"
      ]_vars

\* A worker whose test of done came before the store claimed one more block,
\* hashed all of it and left its loop.
C14_Witness ==
    \E w \in Workers :
        /\ wpc[w] = "exit"
        /\ restAtStop[w] = 0
        /\ lateClaims[w] = 1
        /\ lateHashes[w] = BlockSize

-----------------------------------------------------------------------------
(* C15 *)

\* C15: within one call of parse no step increases first or second, and no
\* step sets done back to false.
C15_NoRegression ==
    [][run' = run =>
          /\ first' <= first
          /\ second' <= second
          /\ done => done'
      ]_vars

\* Two candidates that meet the tier-1 threshold only were both passed to
\* check_hash and first holds the smaller one.
C15_Witness ==
    \E c1, c2 \in Candidates :
        /\ c1 < c2
        /\ Passed(c1) >= 1 /\ Passed(c2) >= 1
        /\ MeetsTier1(c1) /\ ~MeetsTier2(c1)
        /\ MeetsTier1(c2) /\ ~MeetsTier2(c2)
        /\ c2 >= BlockSize
        /\ first = c1

-----------------------------------------------------------------------------
(* C16 *)

\* C16: in every state, done implies that second is known (below u32::MAX)
\* and is a candidate that meets the tier-2 threshold.
C16_DoneImpliesTier2Known ==
    done =>
        /\ second < U32Max
        /\ second \in Candidates
        /\ MeetsTier2(second)

-----------------------------------------------------------------------------
(* C17 *)

\* C17: while the prologue has candidates left no worker has been spawned
\* and the counter is at the block size, and only the prologue's own steps
\* change the atomics.
C17_PrologueFirst ==
    [][run' = run =>
          /\ pn' < BlockSize =>
                /\ \A w \in Workers : wpc'[w] = "unspawned"
                /\ counter' = BlockSize
                /\ hashed' = [c \in 0..U32Max |-> 0]
          /\ (pn < BlockSize
                /\ <<first, second, done, counter>>'
                      # <<first, second, done, counter>>)
                => Prologue
      ]_vars

\* The prologue recorded a tier-1 candidate and a worker claimed a block
\* afterwards.
C17_Witness ==
    /\ mainpc = "join"
    /\ first < BlockSize
    /\ \E w \in Workers : wpc[w] = "hash" /\ offset[w] = BlockSize

-----------------------------------------------------------------------------
(* C18 *)

\* C18: the buffer a worker hands to check_hash is the general form of
\* offset + n, the candidate number it is paired with.
C18_FastPathEncoding ==
    \A w \in Workers :
        (wpc[w] = "hash" /\ ~(Overflows(w) /\ overflowChecks)) =>
            FastBuffer(offset[w], wn[w]) = Format(Candidate(w))

\* The same for the runs in which no claimed block reaches past u32::MAX.
EncodingInRange ==
    ~PastRange =>
        \A w \in Workers :
            wpc[w] = "hash" =>
                FastBuffer(offset[w], wn[w]) = Format(Candidate(w))

====
